---- MODULE Spec2Model ----
\* stats.py: count the occurrences of characters (or regex matches) in files
\* and print a ranked table.  Characters are modelled by their code points, a
\* file's content by a sequence of code points, an output stream by the
\* sequence of lines printed to it.
EXTENDS Integers, Sequences, FiniteSets, TLC

VARIABLES
    args,             \* argparse namespace (the command line)
    fs,               \* path -> content of the text files on disk
    pc,               \* position of main()
    elapsed,          \* whole seconds since signal.alarm() was called
    path_i,           \* index of the next element of args.path
    queue,            \* files of the current root still to be processed
    file_formats,     \* main: file_formats
    results,          \* main: results
    processed_files,  \* main: processed_files
    content,          \* file_statistics: content, as handed to the matcher
    most_common,      \* main: most_common
    f,                \* main: f ("none", "stdout", "open", "closed")
    last_count,       \* main: last_count (0 stands for None)
    i,                \* main: i, rank of the last row printed
    j,                \* main: j
    chars_count,      \* main: chars_count
    chars_sum,        \* main: chars_sum
    out_file,         \* lines written to args.output
    stdout,           \* lines written to standard output
    err,              \* what ended the run abnormally ("none" otherwise)
    exitStatus        \* process exit status (-1 while running)

vars == <<args, fs, pc, elapsed, path_i, queue, file_formats, results,
          processed_files, content, most_common, f, last_count, i, j,
          chars_count, chars_sum, out_file, stdout, err, exitStatus>>

-----------------------------------------------------------------------------
\* Bounds of the model.

\* longest file content in the ranking runs
MaxLen == 4
\* longest file content in the reading runs
MaxReadLen == 2
\* seconds of wall-clock time the model follows
MaxTime == 2

-----------------------------------------------------------------------------
\* Sequences helpers.

SeqsUpTo(S, n) == UNION {[1..k -> S] : k \in 0..n}

RECURSIVE SelectChars(_, _)
\* the subsequence of s whose elements are in the set S
SelectChars(s, S) ==
    IF s = <<>> THEN <<>>
    ELSE IF Head(s) \in S THEN <<Head(s)>> \o SelectChars(Tail(s), S)
         ELSE SelectChars(Tail(s), S)

Range(s) == {s[k] : k \in DOMAIN s}

-----------------------------------------------------------------------------
\* Character classes of Python's re module, on the characters of the model.

\* the characters of the files of the reading runs: ' ', '.', '1', 'A', 'a'
ReadAlphabet == {32, 46, 49, 65, 97}
\* the characters of the files of the ranking runs: ' ', 'a', 'b'
RankAlphabet == {32, 97, 98}

\* \s
IsSpace(c) == (c >= 9 /\ c <= 13) \/ (c >= 28 /\ c <= 32)
\* \d
IsDigit(c) == c >= 48 /\ c <= 57
\* [a-zA-Z]
IsAlpha(c) == (c >= 65 /\ c <= 90) \/ (c >= 97 /\ c <= 122)
\* [\u4e00-\u9fff]
IsCJK(c) == c >= 19968 /\ c <= 40959
\* \w
IsWord(c) == IsAlpha(c) \/ IsDigit(c) \/ c = 95 \/ IsCJK(c)

LibraryNames == {"c", "cp", "cn", "en", "alnum", "num", "sp", "punc"}

\* libraries[name] matches the single character c
libraries(name, c) ==
    CASE name = "c"     -> IsWord(c)
      [] name = "cp"    -> IsWord(c) \/ IsSpace(c)
      [] name = "cn"    -> IsCJK(c)
      [] name = "en"    -> IsAlpha(c)
      [] name = "alnum" -> IsAlpha(c) \/ IsDigit(c)
      [] name = "num"   -> IsDigit(c)
      [] name = "sp"    -> IsSpace(c)
      [] name = "punc"  -> ~IsWord(c) /\ ~IsSpace(c)

\* the custom expressions of the model, each a one-character class
Expressions == {"\\s", "[A-Z]", "[a-z]"}

\* the custom expression regex matches the single character c
ExprMatches(regex, c) ==
    CASE regex = "\\s"   -> IsSpace(c)
      [] regex = "[A-Z]" -> c >= 65 /\ c <= 90
      [] regex = "[a-z]" -> c >= 97 /\ c <= 122

\* str.lower() on one character
Lower(c) == IF c >= 65 /\ c <= 90 THEN c + 32 ELSE c

\* re.sub(r'\s', '', content)
StripSpace(s) == SelectChars(s, {c \in Range(s) : ~IsSpace(c)})

\* content.lower()
LowerAll(s) == [k \in DOMAIN s |-> Lower(s[k])]

-----------------------------------------------------------------------------
\* The files on disk.  "a.txt" and "b.md" are plain text files, "d" is a
\* directory holding d/c.txt, d/e.md, the binary d/x.bin and the directory
\* d/s, which holds d/s/g.txt; "nope" does not exist.

TextFiles == {"a.txt", "b.md", "d/c.txt", "d/e.md", "d/s/g.txt"}
Files == TextFiles \cup {"d/x.bin"}
Roots == {"a.txt", "b.md", "d", "nope"}

\* os.path.isfile(path)
isfile(path) == path \in Files
\* os.path.isdir(path)
isdir(path) == path \in {"d", "d/s"}

\* the extension of a file's name
Ext(file) ==
    CASE file \in {"a.txt", "d/c.txt", "d/s/g.txt"} -> "txt"
      [] file \in {"b.md", "d/e.md"} -> "md"
      [] file = "d/x.bin" -> "bin"

\* fnmatch(name, f'*.{fmt}'), on names with one dot and formats without
\* wildcards
fnmatch(file, fmt) == Ext(file) = fmt

\* "text" in magic.from_file(file)
IsText(file) == file \in TextFiles

\* the files os.walk(directory) yields, in the order it yields them, until the
\* loop breaks
Walk(directory, recursive) ==
    CASE directory = "d" /\ recursive  -> <<"d/c.txt", "d/e.md", "d/x.bin", "d/s/g.txt">>
      [] directory = "d" /\ ~recursive -> <<"d/c.txt", "d/e.md", "d/x.bin">>
      [] directory = "d/s"             -> <<"d/s/g.txt">>

\* args.format.split(',') if args.format else []
SplitFormats(format) ==
    CASE format = ""       -> {}
      [] format = "txt"    -> {"txt"}
      [] format = "md"     -> {"md"}
      [] format = "txt,md" -> {"txt", "md"}

\* process_directory: the files of the walk that pass the format filter
FormatAccepts(formats, file) ==
    formats = {} \/ \E fmt \in formats : fnmatch(file, fmt)

RECURSIVE FilterFiles(_, _)
FilterFiles(files, formats) ==
    IF files = <<>> THEN <<>>
    ELSE IF FormatAccepts(formats, Head(files))
         THEN <<Head(files)>> \o FilterFiles(Tail(files), formats)
         ELSE FilterFiles(Tail(files), formats)

\* main, lines 200-203: the files a root path hands to process_file
RootFiles(path, formats, recursive) ==
    IF isfile(path) THEN <<path>>
    ELSE IF isdir(path) THEN FilterFiles(Walk(path, recursive), formats)
    ELSE <<>>

-----------------------------------------------------------------------------
\* file_statistics: preprocessing and matching.

\* ShouldStrip without the exception for the libraries cp and sp
ShouldStripAnyLibrary(ignore_space, regex, library) ==
    ignore_space /\ regex = ""

\* line 44: whether whitespace is removed before matching
ShouldStrip(ignore_space, regex, library) ==
    ignore_space /\ regex = "" /\ library \notin {"cp", "sp"}

\* lines 44-47: the content handed to the matcher
Preprocess(raw, regex, library, ignore_space, ignore_case) ==
    LET stripped == IF ShouldStrip(ignore_space, regex, library)
                    THEN StripSpace(raw) ELSE raw
    IN  IF ignore_case THEN LowerAll(stripped) ELSE stripped

\* lines 48-53: re.findall of a one-character class, or list(content)
FindAll(text, regex, library) ==
    IF regex # "" THEN SelectChars(text, {c \in Range(text) : ExprMatches(regex, c)})
    ELSE IF library # "None"
         THEN SelectChars(text, {c \in Range(text) : libraries(library, c)})
         ELSE text

-----------------------------------------------------------------------------
\* Counter, most_common and the final sort.  A counted token is a pair
\* <<token, count>>.

RECURSIVE CountOf(_, _)
\* how many times tok occurs in tokens
CountOf(tokens, tok) ==
    IF tokens = <<>> THEN 0
    ELSE (IF Head(tokens) = tok THEN 1 ELSE 0) + CountOf(Tail(tokens), tok)

RECURSIVE FirstSeen(_, _)
\* the distinct tokens in the order they are first met (dict order), seen
\* being the ones already met
FirstSeen(tokens, seen) ==
    IF tokens = <<>> THEN <<>>
    ELSE IF Head(tokens) \in seen THEN FirstSeen(Tail(tokens), seen)
         ELSE <<Head(tokens)>> \o FirstSeen(Tail(tokens), seen \cup {Head(tokens)})

\* Counter(results).items()
Counter(tokens) ==
    LET keys == FirstSeen(tokens, {})
    IN  [k \in DOMAIN keys |-> <<keys[k], CountOf(tokens, keys[k])>>]

RECURSIVE InsertByCount(_, _)
\* x put into s, which is sorted by descending count, behind every element
\* whose count is not smaller (a stable sort keeps equal counts in order)
InsertByCount(s, x) ==
    IF s = <<>> THEN <<x>>
    ELSE IF Head(s)[2] >= x[2] THEN <<Head(s)>> \o InsertByCount(Tail(s), x)
         ELSE <<x>> \o s

RECURSIVE SortByCount(_)
\* sorted(items, key=itemgetter(1), reverse=True)
SortByCount(items) ==
    IF items = <<>> THEN <<>>
    ELSE InsertByCount(SortByCount(SubSeq(items, 1, Len(items) - 1)),
                       items[Len(items)])

\* Counter.most_common(n): the n first of the items sorted by descending
\* count, all of them when n is None (modelled by 0)
MostCommon(items, n) ==
    LET sorted == SortByCount(items)
    IN  IF n > 0 /\ n < Len(sorted) THEN SubSeq(sorted, 1, n) ELSE sorted

\* KeyLess with the reverse flag ignored
KeyLessNoReverse(x, y, reverse) ==
    x[2] > y[2] \/ (x[2] = y[2] /\ x[1] < y[1])

\* line 207: the sort key orders x before y
KeyLess(x, y, reverse) ==
    IF reverse THEN x[2] < y[2] \/ (x[2] = y[2] /\ x[1] < y[1])
    ELSE x[2] > y[2] \/ (x[2] = y[2] /\ x[1] < y[1])

RECURSIVE InsertByKey(_, _, _)
InsertByKey(s, x, reverse) ==
    IF s = <<>> THEN <<x>>
    ELSE IF KeyLess(x, Head(s), reverse) THEN <<x>> \o s
         ELSE <<Head(s)>> \o InsertByKey(Tail(s), x, reverse)

RECURSIVE SortByKey(_, _)
\* most_common.sort(key=...)
SortByKey(items, reverse) ==
    IF items = <<>> THEN <<>>
    ELSE InsertByKey(SortByKey(Tail(items), reverse), Head(items), reverse)

\* lines 205-207
Ranked(tokens, number, reverse) ==
    SortByKey(MostCommon(Counter(tokens), IF number > 0 THEN number ELSE 0), reverse)

RECURSIVE SumCounts(_)
\* sum(count for _, count in most_common)
SumCounts(items) ==
    IF items = <<>> THEN 0 ELSE Head(items)[2] + SumCounts(Tail(items))

-----------------------------------------------------------------------------
\* The report.

\* escape_dict.get(char, char), as the characters printed
Escape(char) ==
    CASE char = 32 -> <<92, 115>>
      [] char = 10 -> <<92, 110>>
      [] char = 9  -> <<92, 116>>
      [] char = 13 -> <<92, 114>>
      [] char = 12 -> <<92, 102>>
      [] char = 11 -> <<92, 118>>
      [] char = 8  -> <<92, 98>>
      [] OTHER     -> <<char>>

\* count / chars_sum * 100 printed with four decimals, in units of 0.0001 %
Percent(count, total) == (2 * count * 1000000 + total) \div (2 * total)

\* a printed line; the fields a kind of line does not use are left empty
Line(kind) ==
    [kind |-> kind, rank |-> 0, tied |-> 0, char |-> <<>>, count |-> 0,
     den |-> 0, percent |-> 0, text |-> ""]

\* lines 215, 217
HeaderLine(display_percent) ==
    [Line("header") EXCEPT !.text = IF display_percent THEN "percent" ELSE "plain"]

\* lines 227, 230
RowLine(rank, tied, char, count, display_percent, total) ==
    [Line("row") EXCEPT !.rank = rank, !.tied = tied, !.char = Escape(char),
                        !.count = count,
                        !.den = IF display_percent THEN total ELSE 0,
                        !.percent = IF display_percent THEN Percent(count, total) ELSE 0]

\* lines 234-238
SummaryLines(count, total, files) ==
    << [Line("total_characters") EXCEPT !.count = count],
       [Line("total_occurrences") EXCEPT !.count = total],
       Line("processed_files") >>
    \o [k \in DOMAIN files |-> [Line("file") EXCEPT !.text = files[k]]]

\* TiedRank that never carries a rank over to the next row
TiedRankOwn(count, last, idx, old_j) == idx

\* line 220-221: the tied rank of row idx
TiedRank(count, last, idx, old_j) == IF count # last THEN idx ELSE old_j

\* InitialCharsSum computed whether or not percentages are displayed
InitialCharsSumAlways(items, display_percent) == SumCounts(items)

\* line 213
InitialCharsSum(items, display_percent) ==
    IF display_percent THEN SumCounts(items) ELSE 0

\* line 209: where the table is printed
OpenTarget(output) == IF output # "" THEN "open" ELSE "stdout"

-----------------------------------------------------------------------------
\* parse_args.

\* UsageError without the check of the library against its choices
UsageErrorNoChoices(a, strict) ==
    a.e_given /\ a.library # "None" /\ (a.expression # "" \/ strict)

\* argparse ends the run with a usage error: a library outside the choices,
\* or -e together with -l.  An option whose value is its default object
\* (-e "") counts as absent for the mutual exclusion in some interpreter
\* versions and as present in others: strict tells which.
UsageError(a, strict) ==
    \/ a.library \notin LibraryNames \cup {"None"}
    \/ a.e_given /\ a.library # "None" /\ (a.expression # "" \/ strict)

\* the exit status of parser.error()
UsageExitStatus == 2

-----------------------------------------------------------------------------
\* The state after the interpreter has started.

DefaultArgs ==
    [expression |-> "", e_given |-> FALSE, library |-> "None", format |-> "",
     number |-> 0, reverse |-> FALSE, recursive |-> FALSE, show_space |-> FALSE,
     case_insensitive |-> FALSE, display_percent |-> FALSE, timeout |-> 60,
     verbose |-> FALSE, output |-> "", path |-> <<"a.txt">>]

\* "aA b", "b.a", "a1", "A", " b"
DefaultFs ==
    [file \in TextFiles |->
        CASE file = "a.txt"     -> <<97, 65, 32, 98>>
          [] file = "b.md"      -> <<98, 46, 97>>
          [] file = "d/c.txt"   -> <<97, 49>>
          [] file = "d/e.md"    -> <<65>>
          [] file = "d/s/g.txt" -> <<32, 98>>]

InitWith(a, files) ==
    /\ args = a
    /\ fs = files
    /\ pc = "parse"
    /\ elapsed = 0
    /\ path_i = 1
    /\ queue = <<>>
    /\ file_formats = {}
    /\ results = <<>>
    /\ processed_files = <<>>
    /\ content = <<>>
    /\ most_common = <<>>
    /\ f = "none"
    /\ last_count = 0
    /\ i = 0
    /\ j = 0
    /\ chars_count = 0
    /\ chars_sum = 0
    /\ out_file = <<>>
    /\ stdout = <<>>
    /\ err = "none"
    /\ exitStatus = -1

\* command lines that vary the pattern options, the traversal, the timeout and
\* the output target, over the fixed files
RunArgs ==
    {[DefaultArgs EXCEPT !.e_given = e[1], !.expression = e[2], !.library = l,
                         !.format = fmt, !.recursive = r, !.timeout = t,
                         !.output = o, !.verbose = v, !.path = p,
                         !.display_percent = dp] :
        e \in {<<FALSE, "">>, <<TRUE, "">>, <<TRUE, "\\s">>},
        l \in {"None", "en", "sp", "bogus"},
        fmt \in {"", "txt", "md"},
        r \in BOOLEAN,
        t \in {0, 1, MaxTime, 60},
        o \in {"", "out.tsv"},
        v \in BOOLEAN,
        dp \in BOOLEAN,
        p \in {<<"a.txt">>, <<"b.md">>, <<"d">>, <<"nope">>,
               <<"b.md", "a.txt">>, <<"d", "b.md">>}}

Init == \E a \in RunArgs : InitWith(a, DefaultFs)

\* command lines that vary the ranking options, over every content of a.txt
RankArgs ==
    {[DefaultArgs EXCEPT !.show_space = TRUE, !.number = n, !.reverse = r,
                         !.display_percent = p, !.timeout = MaxTime, !.path = ps] :
        n \in {0, 1, 2}, r \in BOOLEAN, p \in BOOLEAN,
        ps \in {<<"a.txt">>, <<"b.md", "a.txt">>}}

InitRank ==
    \E a \in RankArgs, text \in SeqsUpTo(RankAlphabet, MaxLen) :
        InitWith(a, [DefaultFs EXCEPT !["a.txt"] = text, !["b.md"] = <<98, 97>>])

\* command lines that vary the pattern and the preprocessing options, over
\* every content of a.txt
ReadArgs ==
    {[DefaultArgs EXCEPT !.e_given = (e # ""), !.expression = e, !.library = l,
                         !.show_space = s, !.case_insensitive = c,
                         !.timeout = MaxTime] :
        e \in Expressions \cup {""}, l \in LibraryNames \cup {"None"},
        s \in BOOLEAN, c \in BOOLEAN}

InitRead ==
    \E a \in {x \in ReadArgs : x.expression = "" \/ x.library = "None"},
       text \in SeqsUpTo(ReadAlphabet, MaxReadLen) :
        InitWith(a, [DefaultFs EXCEPT !["a.txt"] = text])

-----------------------------------------------------------------------------
\* The steps of main().

Running == pc \notin {"parse", "alarm", "exit", "done"}

\* TableToFile when print() is called without file=f
TableToStdout == FALSE

\* the table is being written to the output file
TableToFile == f = "open"

\* print(line, file=f)
PrintTable(line) ==
    IF TableToFile
    THEN out_file' = Append(out_file, line) /\ UNCHANGED stdout
    ELSE stdout' = Append(stdout, line) /\ UNCHANGED out_file

\* line 190; argparse prints the usage to stderr and exits
parse_args ==
    /\ pc = "parse"
    /\ \E strict \in BOOLEAN :
        IF UsageError(args, strict)
        THEN pc' = "exit" /\ err' = "usage" /\ exitStatus' = UsageExitStatus
        ELSE pc' = "alarm" /\ UNCHANGED <<err, exitStatus>>
    /\ UNCHANGED <<args, fs, elapsed, path_i, queue, file_formats, results,
                   processed_files, content, most_common, f, last_count, i, j,
                   chars_count, chars_sum, out_file, stdout>>

\* lines 192-198
SetAlarm ==
    /\ pc = "alarm"
    /\ elapsed' = 0
    /\ file_formats' = SplitFormats(args.format)
    /\ results' = <<>>
    /\ processed_files' = <<>>
    /\ pc' = "paths"
    /\ UNCHANGED <<args, fs, path_i, queue, content, most_common, f,
                   last_count, i, j, chars_count, chars_sum, out_file, stdout,
                   err, exitStatus>>

\* where the run goes once the head of the queue is dealt with
AfterFile == IF Tail(queue) = <<>> THEN "paths" ELSE "classify"

\* lines 199-203: the next root path, or the end of the loop
NextPath ==
    /\ pc = "paths"
    /\ IF path_i > Len(args.path)
       THEN pc' = "count" /\ UNCHANGED <<path_i, queue>>
       ELSE LET files == RootFiles(args.path[path_i], file_formats, args.recursive)
            IN  /\ queue' = files
                /\ path_i' = path_i + 1
                /\ pc' = IF files = <<>> THEN "paths" ELSE "classify"
    /\ UNCHANGED <<args, fs, elapsed, file_formats, results, processed_files,
                   content, most_common, f, last_count, i, j, chars_count,
                   chars_sum, out_file, stdout, err, exitStatus>>

\* debug_info(message, verbose)
Debug(out, text) ==
    IF args.verbose THEN Append(out, [Line("debug") EXCEPT !.text = text]) ELSE out

\* file_statistics, lines 36-40: the file type, outside the try block
Classify ==
    /\ pc = "classify"
    /\ IF IsText(Head(queue))
       THEN /\ stdout' = Debug(stdout, "Processing file")
            /\ pc' = "read"
            /\ UNCHANGED queue
       ELSE /\ stdout' = Debug(Debug(stdout, "Processing file"), "Skipping file")
            /\ pc' = AfterFile
            /\ queue' = Tail(queue)
    /\ UNCHANGED <<args, fs, elapsed, path_i, file_formats, results,
                   processed_files, content, most_common, f, last_count, i, j,
                   chars_count, chars_sum, out_file, err, exitStatus>>

\* file_statistics, lines 41-54, and process_file, lines 177-179
ReadFile ==
    /\ pc = "read"
    /\ LET file == Head(queue)
           text == Preprocess(fs[file], args.expression, args.library,
                              ~args.show_space, args.case_insensitive)
       IN  /\ content' = text
           /\ results' = results \o FindAll(text, args.expression, args.library)
           /\ processed_files' = Append(processed_files, file)
    /\ queue' = Tail(queue)
    /\ pc' = AfterFile
    /\ UNCHANGED <<args, fs, elapsed, path_i, file_formats, most_common, f,
                   last_count, i, j, chars_count, chars_sum, out_file, stdout,
                   err, exitStatus>>

\* lines 205-207
CountAndSort ==
    /\ pc = "count"
    /\ most_common' = Ranked(results, args.number, args.reverse)
    /\ pc' = "open"
    /\ UNCHANGED <<args, fs, elapsed, path_i, queue, file_formats, results,
                   processed_files, content, f, last_count, i, j, chars_count,
                   chars_sum, out_file, stdout, err, exitStatus>>

\* lines 209-213
OpenOutput ==
    /\ pc = "open"
    /\ f' = OpenTarget(args.output)
    /\ out_file' = <<>>
    /\ last_count' = 0
    /\ j' = 0
    /\ chars_count' = 0
    /\ chars_sum' = InitialCharsSum(most_common, args.display_percent)
    /\ pc' = "header"
    /\ UNCHANGED <<args, fs, elapsed, path_i, queue, file_formats, results,
                   processed_files, content, most_common, i, stdout, err,
                   exitStatus>>

\* lines 214-217
PrintHeader ==
    /\ pc = "header"
    /\ PrintTable(HeaderLine(args.display_percent))
    /\ i' = 0
    /\ pc' = "rows"
    /\ UNCHANGED <<args, fs, elapsed, path_i, queue, file_formats, results,
                   processed_files, content, most_common, f, last_count, j,
                   chars_count, chars_sum, err, exitStatus>>

\* lines 218-230: one turn of the loop
PrintRow ==
    /\ pc = "rows"
    /\ i < Len(most_common)
    /\ LET idx   == i + 1
           char  == most_common[idx][1]
           count == most_common[idx][2]
           tied  == TiedRank(count, last_count, idx, j)
       IN  /\ i' = idx
           /\ chars_count' = chars_count + 1
           /\ j' = tied
           /\ last_count' = count
           /\ IF args.display_percent /\ chars_sum = 0
              THEN \* count / chars_sum raises ZeroDivisionError
                   /\ pc' = "exit" /\ err' = "ZeroDivisionError" /\ exitStatus' = 1
                   /\ UNCHANGED <<chars_sum, out_file, stdout>>
              ELSE /\ chars_sum' = IF args.display_percent THEN chars_sum
                                   ELSE chars_sum + count
                   /\ PrintTable(RowLine(idx, tied, char, count,
                                         args.display_percent, chars_sum))
                   /\ UNCHANGED <<pc, err, exitStatus>>
    /\ UNCHANGED <<args, fs, elapsed, path_i, queue, file_formats, results,
                   processed_files, content, most_common, f>>

\* lines 231-232
CloseOutput ==
    /\ pc = "rows"
    /\ i = Len(most_common)
    /\ f' = IF args.output # "" THEN "closed" ELSE f
    /\ pc' = "summary"
    /\ UNCHANGED <<args, fs, elapsed, path_i, queue, file_formats, results,
                   processed_files, content, most_common, last_count, i, j,
                   chars_count, chars_sum, out_file, stdout, err, exitStatus>>

\* lines 234-238, and the normal end of the interpreter
PrintSummary ==
    /\ pc = "summary"
    /\ stdout' = stdout \o SummaryLines(chars_count, chars_sum, processed_files)
    /\ pc' = "done"
    /\ exitStatus' = 0
    /\ UNCHANGED <<args, fs, elapsed, path_i, queue, file_formats, results,
                   processed_files, content, most_common, f, last_count, i, j,
                   chars_count, chars_sum, out_file, err>>

\* a second passes without the alarm going off: signal.alarm(0) sets no
\* alarm, and an alarm of n seconds goes off at the n-th
Tick ==
    /\ Running
    /\ elapsed < MaxTime
    /\ args.timeout = 0 \/ elapsed + 1 < args.timeout
    /\ elapsed' = elapsed + 1
    /\ UNCHANGED <<args, fs, pc, path_i, queue, file_formats, results,
                   processed_files, content, most_common, f, last_count, i, j,
                   chars_count, chars_sum, out_file, stdout, err, exitStatus>>

\* SIGALRM: signal_handler raises TimeoutError where main() is.  Inside the
\* try block of file_statistics it is caught (lines 58-60); anywhere else it
\* is uncaught and the interpreter exits with status 1 after a traceback.
signal_handler ==
    /\ Running
    /\ args.timeout > 0
    /\ elapsed + 1 = args.timeout
    /\ elapsed < MaxTime
    /\ elapsed' = elapsed + 1
    /\ IF pc = "read"
       THEN /\ stdout' = Append(stdout, [Line("diagnostic") EXCEPT
                                            !.text = "Execution time exceeded the timeout."])
            /\ err' = "TimeoutError caught"
       ELSE /\ err' = "TimeoutError"
            /\ UNCHANGED stdout
    /\ pc' = "exit"
    /\ exitStatus' = 1
    /\ UNCHANGED <<args, fs, path_i, queue, file_formats, results,
                   processed_files, content, most_common, f, last_count, i, j,
                   chars_count, chars_sum, out_file>>

Next ==
    \/ parse_args
    \/ SetAlarm
    \/ NextPath
    \/ Classify
    \/ ReadFile
    \/ CountAndSort
    \/ OpenOutput
    \/ PrintHeader
    \/ PrintRow
    \/ CloseOutput
    \/ PrintSummary
    \/ Tick
    \/ signal_handler

Spec == Init /\ [][Next]_vars
SpecRank == InitRank /\ [][Next]_vars
SpecRead == InitRead /\ [][Next]_vars

-----------------------------------------------------------------------------
\* What the claims speak of.

\* most_common holds the ranked list
Sorted == pc \in {"open", "header", "rows", "summary", "done"}

\* the run has ended
Terminated == pc \in {"exit", "done"}

\* every line printed, the output file's first
Printed == out_file \o stdout

IsReportLine(line) ==
    line.kind \in {"header", "row", "total_characters", "total_occurrences",
                   "processed_files", "file"}
IsRow(line) == line.kind = "row"

\* the entry rows printed so far, in order
Rows == SelectSeq(Printed, IsRow)

RECURSIVE SumRowCounts(_)
SumRowCounts(rows) ==
    IF rows = <<>> THEN 0 ELSE Head(rows).count + SumRowCounts(Tail(rows))

Min(a, b) == IF a < b THEN a ELSE b

\* the first n elements of s, all of them when n = 0
FirstN(s, n) == IF n > 0 /\ n < Len(s) THEN SubSeq(s, 1, n) ELSE s

\* the sequences that are permutations of s
PermutationsOf(s) ==
    {[k \in DOMAIN s |-> s[pi[k]]] : pi \in Permutations(DOMAIN s)}

\* the order the sort key of the report puts two counted tokens in
InKeyOrder(x, y) ==
    IF args.reverse
    THEN x[2] < y[2] \/ (x[2] = y[2] /\ x[1] < y[1])
    ELSE x[2] > y[2] \/ (x[2] = y[2] /\ x[1] < y[1])

-----------------------------------------------------------------------------
\* C1

\* C1 as stated: the displayed entries are the first topN entries of the full
\* list of distinct tokens sorted by the sort key (all of them when topN = 0).
C1_FirstOfFullSort ==
    Sorted => most_common = FirstN(SortByKey(Counter(results), args.reverse), args.number)

\* C1 amended: the displayed entries are the topN distinct tokens of highest
\* count, for both values of reverse (among tokens whose count equals the
\* smallest displayed count, the ones first seen earliest), each with its
\* count, and they are displayed in the order of the sort key; when topN = 0
\* all distinct tokens are displayed in that order.
C1_MostFrequentInKeyOrder ==
    Sorted =>
        LET all   == Counter(results)
            shown == most_common
            K     == IF args.number > 0 THEN Min(args.number, Len(all)) ELSE Len(all)
            pos(x) == CHOOSE k \in DOMAIN all : all[k] = x
        IN  /\ Len(shown) = K
            /\ Range(shown) \subseteq Range(all)
            /\ \A a, b \in DOMAIN shown : a < b => InKeyOrder(shown[a], shown[b])
            /\ \A x \in Range(all) \ Range(shown), y \in Range(shown) :
                  y[2] > x[2] \/ (y[2] = x[2] /\ pos(y) < pos(x))

\* C1 witness: a reversed, truncated ranking that leaves out a token of the
\* same count as a displayed one and a token of smaller count
C1_Witness ==
    /\ Sorted /\ args.reverse /\ args.number > 0
    /\ \E x, z \in Range(Counter(results)) \ Range(most_common), y \in Range(most_common) :
          x[2] = y[2] /\ z[2] < y[2]

-----------------------------------------------------------------------------
\* C2

\* C2 as stated: the ranked list is the same for every token sequence that is
\* a permutation of the one the run has read, under the same options.
C2_OrderIndependent ==
    Sorted => \A p \in PermutationsOf(results) :
                  Ranked(p, args.number, args.reverse) = most_common

-----------------------------------------------------------------------------
\* C3

\* C3: ranks are 1..K in display order and every displayed entry's tied rank
\* is the smallest rank among the displayed entries that have its count.
C3_TiedRankIsRunLeader ==
    /\ \A k \in DOMAIN Rows : Rows[k].rank = k
    /\ \A k \in DOMAIN Rows :
          /\ Rows[Rows[k].tied].count = Rows[k].count
          /\ \A m \in DOMAIN Rows :
                Rows[m].count = Rows[k].count => Rows[k].tied <= m

\* C3 witness: a finished report where a tied entry follows its run's leader,
\* the run not being the first
C3_Witness ==
    /\ pc = "done"
    /\ \E k \in DOMAIN Rows : Rows[k].tied > 1 /\ Rows[k].tied < Rows[k].rank

-----------------------------------------------------------------------------
\* C4

\* C4 as stated: a root path that is a plain file is processed only if the
\* format set is empty or its name matches one of the extensions.
C4_RootFilePassesFilter ==
    \A k \in DOMAIN processed_files :
        processed_files[k] \in Range(args.path) =>
            (file_formats = {} \/ \E fmt \in file_formats : Ext(processed_files[k]) = fmt)

-----------------------------------------------------------------------------
\* C5

\* C5 as stated: a run that has not finished when timeoutSeconds (0 included)
\* have elapsed since the alarm was set ends with exit status 1 and without
\* any line of the report.
C5_TimeoutAbortsWithoutReport ==
    (Terminated /\ err # "usage" /\ elapsed >= args.timeout) =>
        /\ exitStatus = 1
        /\ \A k \in DOMAIN Printed : ~IsReportLine(Printed[k])

-----------------------------------------------------------------------------
\* C6

\* nothing of a file has been read and nothing printed
NothingDone ==
    /\ processed_files = <<>> /\ results = <<>> /\ content = <<>>
    /\ Printed = <<>> /\ f = "none"

\* C6 as stated: an expression together with a library, or a library outside
\* the eight names, ends the run with exit status 1 before any file is read
\* and without any report.
C6_ConfigErrorExitsOne ==
    ((args.e_given /\ args.library # "None") \/ args.library \notin LibraryNames \cup {"None"}) =>
        (pc # "parse" => pc = "exit" /\ exitStatus = 1 /\ NothingDone)

\* C6 amended: a non-empty expression together with a library, or a library
\* outside the eight names, ends the run with exit status 2 before any file is
\* read and without any report.
C6_ConfigErrorExitsTwo ==
    ((args.e_given /\ args.expression # "" /\ args.library # "None")
        \/ args.library \notin LibraryNames \cup {"None"}) =>
        (pc # "parse" => pc = "exit" /\ exitStatus = 2 /\ NothingDone)

\* C6 witness: a run given an expression together with a library has ended
C6_Witness ==
    /\ pc = "exit" /\ err = "usage" /\ exitStatus = 2
    /\ args.e_given /\ args.expression # "" /\ args.library \in LibraryNames

-----------------------------------------------------------------------------
\* C7

\* C7 as stated: with an output path the whole report, summary included, is in
\* the file and none of it on standard output; without one the whole report is
\* on standard output.
C7_WholeReportInFile ==
    pc = "done" =>
        IF args.output # ""
        THEN /\ \A k \in DOMAIN stdout : ~IsReportLine(stdout[k])
             /\ \E k \in DOMAIN out_file : out_file[k].kind = "total_occurrences"
        ELSE out_file = <<>>

\* C7 amended: in a run that completes with an output path, the header and the
\* entry rows are written to that file and none of them to standard output,
\* and the trailing summary is written to standard output and not to the file;
\* without an output path the whole report goes to standard output.
C7_TableInFileSummaryOnStdout ==
    pc = "done" =>
        LET table   == <<HeaderLine(args.display_percent)>>
                       \o [k \in DOMAIN most_common |->
                             RowLine(k, Rows[k].tied, most_common[k][1], most_common[k][2],
                                     args.display_percent, SumCounts(most_common))]
            summary == SummaryLines(Len(most_common), SumCounts(most_common), processed_files)
        IN  /\ Len(Rows) = Len(most_common)
            /\ IF args.output # ""
               THEN /\ out_file = table
                    /\ SelectSeq(stdout, IsReportLine) = summary
               ELSE /\ out_file = <<>>
                    /\ SelectSeq(stdout, IsReportLine) = table \o summary

\* C7 witness: a completed run that wrote entry rows to the output file
C7_Witness ==
    /\ pc = "done" /\ args.output # ""
    /\ \E k \in DOMAIN out_file : IsRow(out_file[k])
    /\ processed_files # <<>>

-----------------------------------------------------------------------------
\* C8

\* C8: every percentage is computed over the sum of the counts of the
\* displayed entries, which is not zero; the total occurrences reported equal
\* the sum of the counts of the rows displayed, with or without percentages;
\* no division by zero ends a run.
C8_TotalsOverDisplayed ==
    /\ err # "ZeroDivisionError"
    /\ \A k \in DOMAIN Rows :
          args.display_percent =>
              /\ Rows[k].den = SumCounts(most_common)
              /\ Rows[k].den > 0
              /\ Rows[k].percent = Percent(Rows[k].count, Rows[k].den)
    /\ pc = "done" =>
          /\ Len(Rows) = Len(most_common)
          /\ \A k \in DOMAIN Rows : Rows[k].count = most_common[k][2]
          /\ \A k \in DOMAIN stdout :
                stdout[k].kind = "total_occurrences" =>
                    stdout[k].count = SumRowCounts(Rows)
          /\ \E k \in DOMAIN stdout : stdout[k].kind = "total_occurrences"
          /\ args.display_percent => \A k \in DOMAIN Rows : Rows[k].den = SumRowCounts(Rows)

\* C8 witness: a completed run with percentages whose truncated table sums to
\* less than the tokens counted
C8_Witness ==
    /\ pc = "done" /\ args.display_percent /\ args.number > 0
    /\ Rows # <<>>
    /\ SumRowCounts(Rows) < Len(results)

-----------------------------------------------------------------------------
\* C9

\* C9 as stated: no run ends with the output file still open.
C9_ClosedOnEveryExit == Terminated => f # "open"

-----------------------------------------------------------------------------
\* C10

\* C10: whitespace is stripped before matching exactly when --show-space is
\* absent, no expression is given and the library is neither cp nor sp; case
\* folding, when asked for, follows the stripping and precedes the matching.
\* So with stripping no whitespace token is counted, and with an expression or
\* the libraries cp and sp the matcher sees the whitespace of the file.
C10_StripCondition ==
    processed_files = <<"a.txt">> =>
        LET raw      == fs["a.txt"]
            strip    == ~args.show_space /\ args.expression = ""
                        /\ args.library \notin {"cp", "sp"}
            spaces   == {c \in Range(raw) : IsSpace(c)}
            kept     == IF strip THEN SelectChars(raw, Range(raw) \ spaces) ELSE raw
            expected == IF args.case_insensitive THEN LowerAll(kept) ELSE kept
        IN  /\ content = expected
            /\ strip => \A k \in DOMAIN results : ~IsSpace(results[k])
            /\ (args.expression = "\\s" \/ args.library \in {"cp", "sp"}) =>
                  SelectChars(results, spaces) = SelectChars(raw, spaces)
            /\ args.case_insensitive =>
                  \A k \in DOMAIN results : results[k] = Lower(results[k])
            /\ (args.expression = "[A-Z]" /\ args.case_insensitive) => results = <<>>

\* C10 witness: a file with whitespace and an upper-case letter read with
\* stripping and case folding, and tokens counted
C10_Witness ==
    /\ processed_files = <<"a.txt">>
    /\ ~args.show_space /\ args.expression = "" /\ args.library = "en"
    /\ args.case_insensitive
    /\ \E k \in DOMAIN fs["a.txt"] : IsSpace(fs["a.txt"][k])
    /\ \E k \in DOMAIN fs["a.txt"] : fs["a.txt"][k] = 65
    /\ results = <<97>>

====
